---- MODULE Spec2Model ----
(***************************************************************************)
(* Crawl control engine of the lead scraper: the dedup-upsert persistence  *)
(* gateway (app/db_mongo.py), the phone normaliser (app/parsers.py), the   *)
(* rotation cursors (app/utils/anti_bot.py) and the orchestrator with its  *)
(* detail-page retry machine (app/crawlers/google_maps_crawlee.py).        *)
(*                                                                         *)
(* One crawl session "s" runs handle_page / visit_detail_page_and_enrich   *)
(* step by step.  The MongoDB collection is shared with other sessions;    *)
(* their effect on the collection is their save_business calls, made here  *)
(* by the writers.  An upsert is two server steps (look the key up, then   *)
(* insert when nothing matched), so that two upserts of one key can race   *)
(* and the unique index decides.                                           *)
(***************************************************************************)
EXTENDS Integers, Sequences, FiniteSets, TLC

VARIABLES
    store,          \* the collection: documents in insertion order
    sv,             \* per actor: the save_business call in progress
    nsaves,         \* per actor: number of save_business calls started
    pc,             \* the session's position in run_async / handle_page / enrich
    max_results,    \* GoogleMapsCrawlee.max_results
    results_count,  \* GoogleMapsCrawlee.results_count
    stats,          \* GoogleMapsCrawlee.stats
    proxy_index,    \* Rotation.proxy_index
    ua_index,       \* Rotation.ua_index
    cards,          \* businesses returned by parse_card_html
    idx,            \* position of the for loop of handle_page in cards (1-based)
    business,       \* the dict of the card being processed (mutated in place)
    attempt,        \* loop variable of the retry loop
    tab,            \* new_page of the current attempt: "none", "open", "closed"
    elog,           \* events of the enrich call in progress (or of the last one)
    enriched,       \* return value of the last enrich call: "none", "true", "false"
    stats0,         \* stats as they were when the enrich call in progress began
    outcome,        \* how run() ended: "running", "stats", "raised"
    call            \* the last call of a helper made on its own: function, argument, result

vars == <<store, sv, nsaves, pc, max_results, results_count, stats, proxy_index,
          ua_index, cards, idx, business, attempt, tab, elog, enriched, stats0,
          outcome, call>>

storeVars   == <<store, sv, nsaves>>
sessionVars == <<pc, max_results, results_count, stats, proxy_index, ua_index,
                 cards, idx, business, attempt, tab, elog, enriched, stats0, outcome>>

----------------------------------------------------------------------------
(* Bounds of the model *)

MaxCards == 2           \* longest listing parse_card_html returns
MaxResultsBound == 2    \* largest max_results of a request
MaxWriterSaves == 2     \* save_business calls made by each other session
MaxRaceCards == 1       \* longest listing of a session that another session races

(* Program constants *)

MAX_DETAIL_ATTEMPTS == 3
BACKOFF_UNIT_MS == 2000
DB_UPSERT_ON_INSERT == TRUE

----------------------------------------------------------------------------
(* Values *)

NULL == "null"          \* Python None for name and google_maps_url
NoPhone == <<>>         \* None or "" for the phone (both are falsy)
NoSite == <<>>          \* None or "" for the website

Digits == {"0", "1", "2", "3", "4", "5", "6", "7", "8", "9"}

(* Phone texts as they stand in the page: sequences of characters. *)
PhoneDashed == <<"5", "5", "5", "-", "0", "1", "2", "3">>
PhonePlain  == <<"5", "5", "5", "0", "1", "2", "3">>
PhoneOther  == <<"5", "5", "5", "0", "1", "9", "9">>

(* Website hrefs: one that starts with "http" and one that does not. *)
SiteHttp == <<"h", "t", "t", "p", ":", "w">>
SiteBare == <<"w", "w", "w">>

(* Lines of the proxy list and of the user-agent list. *)
Proxies == <<"px1", "px2">>
UserAgents == <<"ua1", "ua2">>

Writers == {"w1", "w2"}
Actors == {"s"} \cup Writers

----------------------------------------------------------------------------
(* parsers.normalize_phone *)

StripPhone(s) == SelectSeq(s, LAMBDA c : c \in Digits \cup {"+"})

normalize_phone(phone_str) ==
    IF phone_str = NoPhone THEN NoPhone
    ELSE LET stripped == StripPhone(phone_str)
             normalized == IF Len(stripped) >= 2 /\ stripped[1] = "0" /\ stripped[2] = "0"
                           THEN <<"+">> \o SubSeq(stripped, 3, Len(stripped))
                           ELSE stripped
         IN  IF Len(normalized) < 6 \/ Len(normalized) > 15 THEN NoPhone
             ELSE normalized

----------------------------------------------------------------------------
(* Records.  A business dict carries the keys parse_card_html always sets. *)

Business(n, p, w, u) ==
    [name |-> n, phone |-> p, website |-> w, google_maps_url |-> u]

(* A card of the listing: website is always None, and the card has a name
   or a detail URL. *)
CardSet ==
    { Business("n1", NoPhone,     NoSite, "u1"),
      Business("n2", PhoneDashed, NoSite, "u2"),
      Business("n1", PhonePlain,  NoSite, NULL),
      Business("n2", PhoneDashed, NoSite, NULL),
      Business("n2", NoPhone,     NoSite, NULL) }

Listings == UNION { [1..n -> CardSet] : n \in 0..MaxCards }

(* What parse_detail_page_html can return for the keys modelled: each key is
   present (with a value) or absent (NoSite / NoPhone here); the phone is
   already normalised by the parser. *)
DetailSet ==
    { [website |-> w, phone |-> p] :
        w \in {NoSite, SiteHttp}, p \in {NoPhone, normalize_phone(PhoneOther)} }

(* Records other sessions save: listing cards and enriched cards. *)
WriterRecs ==
    { Business("n1", NoPhone,     NoSite,   "u1"),
      Business("n2", PhoneOther,  SiteHttp, "u1"),
      Business("n1", PhonePlain,  NoSite,   NULL),
      Business("n2", PhoneDashed, NoSite,   NULL),
      Business("n1", PhoneOther,  NoSite,   NULL),
      Business("n2", NoPhone,     NoSite,   NULL) }

----------------------------------------------------------------------------
(* db_mongo.save_business against the collection *)

(* The clock of datetime.utcnow(): the number of saves started so far. *)
RECURSIVE SumSaves(_, _)
SumSaves(f, S) ==
    IF S = {} THEN 0
    ELSE LET a == CHOOSE x \in S : TRUE IN f[a] + SumSaves(f, S \ {a})

Now == SumSaves(nsaves, Actors)

(* Mutant of KeyKind: the final else branch is missing, a record without
   URL is keyed by its phone even when it has none. *)
KeyKindNoReject(b) ==
    IF b.google_maps_url # NULL THEN "url" ELSE "phone"

(* unique_key: "url", "phone" or "none" *)
KeyKind(b) ==
    IF b.google_maps_url # NULL THEN "url"
    ELSE IF b.phone # NoPhone THEN "phone"
    ELSE "none"

(* The positions of the documents the filter unique_key matches. *)
Matches(st, b) ==
    IF KeyKind(b) = "url"
    THEN { i \in 1..Len(st) : st[i].google_maps_url = b.google_maps_url }
    ELSE IF KeyKind(b) = "phone"
    THEN { i \in 1..Len(st) : st[i].phone = b.phone }
    ELSE {}

(* Mutant of UniqueViolation: the unique index is created sparse, so that
   documents without a URL are not indexed. *)
UniqueViolationSparse(st, u, self) ==
    u # NULL /\ \E i \in 1..Len(st) : i # self /\ st[i].google_maps_url = u

(* The unique index google_maps_url_unique (not sparse: a missing or null
   URL is indexed as null): TRUE when a document other than the one at
   position self already holds the URL u. *)
UniqueViolation(st, u, self) ==
    \E i \in 1..Len(st) : i # self /\ st[i].google_maps_url = u

(* Mutant of SetFields: created_at is written by $set like the other
   fields. *)
SetFieldsStamped(doc, b) ==
    [name |-> b.name, phone |-> b.phone, website |-> b.website,
     google_maps_url |-> b.google_maps_url, created_at |-> Now]

(* $set: business on an existing document; created_at is left alone. *)
SetFields(doc, b) ==
    [name |-> b.name, phone |-> b.phone, website |-> b.website,
     google_maps_url |-> b.google_maps_url, created_at |-> doc.created_at]

(* The inserted document of an upsert: $set and $setOnInsert. *)
NewDoc(b, now) ==
    [name |-> b.name, phone |-> b.phone, website |-> b.website,
     google_maps_url |-> b.google_maps_url, created_at |-> now]

NoBusiness == Business(NULL, NoPhone, NoSite, NULL)

(* No helper has been called on its own. *)
NoCall == [fn |-> "none"]

(* A save_business call: phase "idle", "find", "insert" or "done"; rec the
   dict passed; now the datetime.utcnow() of the call; res the result once
   done; seen the collection as the lookup saw it, kept while the insert is
   pending. *)
Idle == [phase |-> "idle", rec |-> NoBusiness, now |-> 0, res |-> "none", seen |-> <<>>]

(* An actor calls save_business(b). *)
CallSave(a, b) ==
    /\ sv' = [sv EXCEPT ![a] = [phase |-> "find", rec |-> b, now |-> Now + 1,
                                 res |-> "none", seen |-> <<>>]]
    /\ nsaves' = [nsaves EXCEPT ![a] = @ + 1]

(* First server step of update_one: key computation, lookup, and the update
   of the matched document.  res: "rejected" (no key, returns False),
   "updated" (returns False), "dupkey" (DuplicateKeyError, returns False). *)
SaveFind(a) ==
    /\ sv[a].phase = "find"
    /\ LET b == sv[a].rec IN
       IF KeyKind(b) = "none"
       THEN /\ sv' = [sv EXCEPT ![a].phase = "done", ![a].res = "rejected"]
            /\ UNCHANGED store
       ELSE IF Matches(store, b) # {}
       THEN \E i \in Matches(store, b) :
               IF UniqueViolation(store, b.google_maps_url, i)
               THEN /\ sv' = [sv EXCEPT ![a].phase = "done", ![a].res = "dupkey"]
                    /\ UNCHANGED store
               ELSE /\ store' = [store EXCEPT ![i] = SetFields(@, b)]
                    /\ sv' = [sv EXCEPT ![a].phase = "done", ![a].res = "updated"]
       ELSE IF DB_UPSERT_ON_INSERT
       THEN /\ sv' = [sv EXCEPT ![a].phase = "insert", ![a].seen = store]
            /\ UNCHANGED store
       ELSE /\ sv' = [sv EXCEPT ![a].phase = "done", ![a].res = "updated"]
            /\ UNCHANGED store
    /\ UNCHANGED <<call, nsaves, sessionVars>>

(* Second server step: the insert of the upsert goes through. *)
SaveInsert(a) ==
    /\ sv[a].phase = "insert"
    /\ ~UniqueViolation(store, sv[a].rec.google_maps_url, 0)
    /\ store' = Append(store, NewDoc(sv[a].rec, sv[a].now))
    /\ sv' = [sv EXCEPT ![a].phase = "done", ![a].res = "created", ![a].seen = <<>>]
    /\ UNCHANGED <<call, nsaves, sessionVars>>

(* Second server step: the insert hits the unique index and the server
   reports it; save_business catches DuplicateKeyError and returns False. *)
SaveInsertDupKey(a) ==
    /\ sv[a].phase = "insert"
    /\ UniqueViolation(store, sv[a].rec.google_maps_url, 0)
    /\ sv' = [sv EXCEPT ![a].phase = "done", ![a].res = "dupkey", ![a].seen = <<>>]
    /\ UNCHANGED <<call, store, nsaves, sessionVars>>

(* Second server step: the insert hits the unique index and the server runs
   the upsert again as an update (servers that retry an upsert whose filter
   is an equality on the unique index key; the phone filter never
   qualifies). *)
SaveInsertRetried(a) ==
    /\ sv[a].phase = "insert"
    /\ KeyKind(sv[a].rec) = "url"
    /\ Matches(store, sv[a].rec) # {}
    /\ \E i \in Matches(store, sv[a].rec) :
          store' = [store EXCEPT ![i] = SetFields(@, sv[a].rec)]
    /\ sv' = [sv EXCEPT ![a].phase = "done", ![a].res = "updated", ![a].seen = <<>>]
    /\ UNCHANGED <<call, nsaves, sessionVars>>

(* The bool save_business returns. *)
SaveReturn(res) == res = "created"

(* Another session saves one of its records. *)
WriterSave(w, b) ==
    /\ sv[w].phase \in {"idle", "done"}
    /\ nsaves[w] < MaxWriterSaves
    /\ CallSave(w, b)
    /\ UNCHANGED <<call, store, sessionVars>>

----------------------------------------------------------------------------
(* utils/anti_bot.Rotation *)

(* Mutant of NextIndex: the cursor moves on by two. *)
NextIndexSkips(index, list) ==
    IF Len(list) = 0 THEN index ELSE (index + 2) % Len(list)

(* next_proxy / next_user_agent: the cursor after the call. *)
NextIndex(index, list) ==
    IF Len(list) = 0 THEN index ELSE (index + 1) % Len(list)

(* next_proxy / next_user_agent: None on an empty list, else the element
   under the moved cursor (Python lists count from 0, sequences from 1). *)
NextElement(index, list) ==
    IF Len(list) = 0 THEN NULL ELSE list[NextIndex(index, list) + 1]

(* db_mongo.is_record_complete *)
StartsWithHttp(w) == Len(w) >= 4 /\ SubSeq(w, 1, 4) = <<"h", "t", "t", "p">>

is_record_complete(b) ==
    /\ b.phone # NoPhone /\ Len(b.phone) >= 6
    /\ b.website # NoSite /\ StartsWithHttp(b.website)

(* Mutant of business_exists: the lookup finds nothing. *)
business_exists_not(st, u) == FALSE

(* db_mongo.business_exists *)
business_exists(st, u) == \E i \in 1..Len(st) : st[i].google_maps_url = u

Ev(e, n) == [e |-> e, n |-> n]

----------------------------------------------------------------------------
(* crawlers/google_maps_crawlee.GoogleMapsCrawlee: run_async *)

(* run_async up to crawler.run: both cursors advance once, then the crawler
   calls handle_page on the search page. *)
Start ==
    /\ pc = "init"
    /\ proxy_index' = NextIndex(proxy_index, Proxies)
    /\ ua_index' = NextIndex(ua_index, UserAgents)
    /\ pc' = "listing_check"
    /\ UNCHANGED <<call, storeVars, max_results, results_count, stats, cards, idx, business,
                   attempt, tab, elog, enriched, stats0, outcome>>

(* crawler.run fails with an exception other than CaptchaDetectedError (the
   driver does not start): run_async re-raises it. *)
DriverFails ==
    /\ pc = "init"
    /\ pc' = "ended"
    /\ outcome' = "raised"
    /\ UNCHANGED <<call, storeVars, max_results, results_count, stats, proxy_index, ua_index,
                   cards, idx, business, attempt, tab, elog, enriched, stats0>>

(* handle_page: the block detector on the listing page.  Blocked: count it
   and raise CaptchaDetectedError out of the handler. *)
ListingCheck(blocked) ==
    /\ pc = "listing_check"
    /\ IF blocked
       THEN /\ stats' = [stats EXCEPT !.captcha_encounters = @ + 1]
            /\ pc' = "handler_raised"
       ELSE /\ pc' = "extract"
            /\ UNCHANGED stats
    /\ UNCHANGED <<call, storeVars, max_results, results_count, proxy_index, ua_index, cards,
                   idx, business, attempt, tab, elog, enriched, stats0, outcome>>

(* crawler.run lets the handler's CaptchaDetectedError through: run_async
   catches it, counts it and goes on to return the statistics. *)
RunCatchCaptcha ==
    /\ pc = "handler_raised"
    /\ stats' = [stats EXCEPT !.captcha_encounters = @ + 1]
    /\ pc' = "ended"
    /\ outcome' = "stats"
    /\ UNCHANGED <<call, storeVars, max_results, results_count, proxy_index, ua_index, cards,
                   idx, business, attempt, tab, elog, enriched, stats0>>

(* crawler.run keeps the handler's error to itself (a failed request) and
   returns: run_async returns the statistics. *)
CrawlerAbsorbs ==
    /\ pc = "handler_raised"
    /\ pc' = "ended"
    /\ outcome' = "stats"
    /\ UNCHANGED <<call, storeVars, max_results, results_count, stats, proxy_index, ua_index,
                   cards, idx, business, attempt, tab, elog, enriched, stats0>>

----------------------------------------------------------------------------
(* handle_page: the loop over the cards *)

(* scroll, page.content(), parse_card_html *)
Extract(listing) ==
    /\ pc = "extract"
    /\ cards' = listing
    /\ idx' = 1
    /\ pc' = "loop"
    /\ UNCHANGED <<call, storeVars, max_results, results_count, stats, proxy_index, ua_index,
                   business, attempt, tab, elog, enriched, stats0, outcome>>

(* The for loop is over, or the max_results break: handle_page returns and
   run_async returns the statistics. *)
LoopExit ==
    /\ pc = "loop"
    /\ idx > Len(cards) \/ results_count >= max_results
    /\ pc' = "ended"
    /\ outcome' = "stats"
    /\ UNCHANGED <<call, storeVars, max_results, results_count, stats, proxy_index, ua_index,
                   cards, idx, business, attempt, tab, elog, enriched, stats0>>

(* Mutant of InLoop: the loop has no max_results break. *)
InLoopNoLimit == pc = "loop" /\ idx <= Len(cards)

(* The loop takes up another card: the for loop has one and the max_results
   break is not taken. *)
InLoop == pc = "loop" /\ idx <= Len(cards) /\ results_count < max_results

(* The card's URL is already in the collection: continue. *)
SkipDuplicate ==
    /\ InLoop
    /\ cards[idx].google_maps_url # NULL
    /\ business_exists(store, cards[idx].google_maps_url)
    /\ business' = cards[idx]
    /\ idx' = idx + 1
    /\ UNCHANGED <<call, storeVars, pc, max_results, results_count, stats, proxy_index,
                   ua_index, cards, attempt, tab, elog, enriched, stats0, outcome>>

(* The card is complete, or has no URL: no detail visit, save it. *)
CardSaveDirect ==
    /\ InLoop
    /\ LET b == cards[idx] IN
       /\ ~(b.google_maps_url # NULL /\ business_exists(store, b.google_maps_url))
       /\ is_record_complete(b) \/ b.google_maps_url = NULL
       /\ business' = b
       /\ CallSave("s", b)
    /\ pc' = "saving_card"
    /\ UNCHANGED <<call, store, max_results, results_count, stats, proxy_index, ua_index,
                   cards, idx, attempt, tab, elog, enriched, stats0, outcome>>

(* The card is incomplete and has a URL: visit_detail_page_and_enrich is
   called and counts the call. *)
CardEnrich ==
    /\ InLoop
    /\ LET b == cards[idx] IN
       /\ b.google_maps_url # NULL
       /\ ~business_exists(store, b.google_maps_url)
       /\ ~is_record_complete(b)
       /\ business' = b
    /\ stats' = [stats EXCEPT !.total_attempted = @ + 1]
    /\ stats0' = stats
    /\ pc' = "rate_wait_detail"
    /\ UNCHANGED <<call, storeVars, max_results, results_count, proxy_index, ua_index, cards,
                   idx, attempt, tab, elog, enriched, outcome>>

(* save_business returned to handle_page: count a created record. *)
SaveCardDone ==
    /\ pc = "saving_card"
    /\ sv["s"].phase = "done"
    /\ results_count' = IF SaveReturn(sv["s"].res) THEN results_count + 1 ELSE results_count
    /\ sv' = [sv EXCEPT !["s"].phase = "idle"]
    /\ pc' = "rate_wait_card"
    /\ UNCHANGED <<call, store, nsaves, max_results, stats, proxy_index, ua_index, cards, idx,
                   business, attempt, tab, elog, enriched, stats0, outcome>>

(* rate_limiter.wait() after the card, then the next card. *)
RateWaitCard ==
    /\ pc = "rate_wait_card"
    /\ idx' = idx + 1
    /\ enriched' = "none"
    /\ pc' = "loop"
    /\ UNCHANGED <<call, storeVars, max_results, results_count, stats, proxy_index, ua_index,
                   cards, business, attempt, tab, elog, stats0, outcome>>

----------------------------------------------------------------------------
(* visit_detail_page_and_enrich *)

(* rate_limiter.wait() before the retry loop, then attempt 1. *)
RateWaitDetail ==
    /\ pc = "rate_wait_detail"
    /\ elog' = Append(elog, Ev("rate_wait", 0))
    /\ attempt' = 1
    /\ tab' = "none"
    /\ pc' = "open_tab"
    /\ UNCHANGED <<call, storeVars, max_results, results_count, stats, proxy_index, ua_index,
                   cards, idx, business, enriched, stats0, outcome>>

(* An attempt begins: new tab and next user agent; new_page() may raise. *)
OpenTab(ok) ==
    /\ pc = "open_tab"
    /\ IF ok
       THEN /\ tab' = "open"
            /\ ua_index' = NextIndex(ua_index, UserAgents)
            /\ elog' = Append(elog, Ev("attempt", attempt))
            /\ pc' = "navigate"
       ELSE /\ tab' = "none"
            /\ elog' = elog \o <<Ev("attempt", attempt), Ev("failed", attempt)>>
            /\ pc' = "cleanup"
            /\ UNCHANGED ua_index
    /\ UNCHANGED <<call, storeVars, max_results, results_count, stats, proxy_index, cards, idx,
                   business, attempt, enriched, stats0, outcome>>

(* new_page.goto: done, PlaywrightTimeout, or another exception. *)
Navigate(o) ==
    /\ pc = "navigate"
    /\ IF o = "ok"
       THEN /\ pc' = "captcha_check"
            /\ UNCHANGED elog
       ELSE /\ pc' = "cleanup"
            /\ elog' = Append(elog, Ev(o, attempt))
    /\ UNCHANGED <<call, storeVars, max_results, results_count, stats, proxy_index, ua_index,
                   cards, idx, business, attempt, tab, enriched, stats0, outcome>>

(* Mutant of CheckCaptcha: a blocked detail page is not counted. *)
CheckCaptchaUncounted(blocked) ==
    /\ pc = "captcha_check"
    /\ IF blocked
       THEN /\ tab' = "closed"
            /\ elog' = Append(elog, Ev("blocked", attempt))
            /\ pc' = "cleanup"
            /\ UNCHANGED stats
       ELSE /\ pc' = "parse_detail"
            /\ UNCHANGED <<stats, tab, elog>>
    /\ UNCHANGED <<call, storeVars, max_results, results_count, proxy_index, ua_index, cards,
                   idx, business, attempt, enriched, stats0, outcome>>

(* The block detector on the detail page.  Blocked: count it, close the
   tab and raise CaptchaDetectedError, caught by the attempt. *)
CheckCaptcha(blocked) ==
    /\ pc = "captcha_check"
    /\ IF blocked
       THEN /\ stats' = [stats EXCEPT !.captcha_encounters = @ + 1]
            /\ tab' = "closed"
            /\ elog' = Append(elog, Ev("blocked", attempt))
            /\ pc' = "cleanup"
       ELSE /\ pc' = "parse_detail"
            /\ UNCHANGED <<stats, tab, elog>>
    /\ UNCHANGED <<call, storeVars, max_results, results_count, proxy_index, ua_index, cards,
                   idx, business, attempt, enriched, stats0, outcome>>

(* The phone of detail_data after the normalisation of lines 277-282. *)
DetailPhone(p) ==
    IF p = NoPhone THEN NoPhone
    ELSE IF normalize_phone(p) # NoPhone THEN normalize_phone(p) ELSE p

(* business.update(detail_data): only the keys detail_data has. *)
Merge(b, d) ==
    [b EXCEPT !.website = IF d.website # NoSite THEN d.website ELSE @,
              !.phone = IF d.phone # NoPhone THEN DetailPhone(d.phone) ELSE @]

(* Selector waits, page.content(), parse_detail_page_html, the merge into
   business, and the call of save_business. *)
ParseDetail(d) ==
    /\ pc = "parse_detail"
    /\ business' = Merge(business, d)
    /\ CallSave("s", Merge(business, d))
    /\ pc' = "saving_detail"
    /\ UNCHANGED <<call, store, max_results, results_count, stats, proxy_index, ua_index,
                   cards, idx, attempt, tab, elog, enriched, stats0, outcome>>

(* save_business returned to the attempt; its result is not looked at. *)
SaveDetailDone ==
    /\ pc = "saving_detail"
    /\ sv["s"].phase = "done"
    /\ sv' = [sv EXCEPT !["s"].phase = "idle"]
    /\ elog' = Append(elog, Ev("saved", attempt))
    /\ pc' = "close_tab"
    /\ UNCHANGED <<call, store, nsaves, max_results, results_count, stats, proxy_index,
                   ua_index, cards, idx, business, attempt, tab, enriched, stats0,
                   outcome>>

(* new_page.close() of the success path.  Closed: count the success and
   return True.  Raised: the attempt ends in "except Exception". *)
CloseTab(ok) ==
    /\ pc = "close_tab"
    /\ IF ok
       THEN /\ tab' = "closed"
            /\ stats' = [stats EXCEPT !.detail_successes = @ + 1,
                                      !.total_successful = @ + 1]
            /\ elog' = Append(elog, Ev("success", attempt))
            /\ enriched' = "true"
            /\ pc' = "after_enrich"
       ELSE /\ elog' = Append(elog, Ev("failed", attempt))
            /\ pc' = "cleanup"
            /\ UNCHANGED <<tab, stats, enriched>>
    /\ UNCHANGED <<call, storeVars, max_results, results_count, proxy_index, ua_index, cards,
                   idx, business, attempt, stats0, outcome>>

(* Mutant of Retry: there is no finally block, a failed attempt leaves its
   tab as it is. *)
RetryNoClose ==
    /\ pc = "cleanup"
    /\ attempt < MAX_DETAIL_ATTEMPTS
    /\ proxy_index' = NextIndex(proxy_index, Proxies)
    /\ elog' = elog \o <<Ev("next_proxy", attempt), Ev("backoff", BACKOFF_UNIT_MS * attempt)>>
    /\ attempt' = attempt + 1
    /\ pc' = "open_tab"
    /\ UNCHANGED <<call, storeVars, max_results, results_count, stats, ua_index, cards, idx,
                   business, tab, enriched, stats0, outcome>>

(* Mutant of Retry: the failure is counted after every failed attempt. *)
RetryCountsFailure ==
    /\ pc = "cleanup"
    /\ attempt < MAX_DETAIL_ATTEMPTS
    /\ tab' = IF tab = "open" THEN "closed" ELSE tab
    /\ proxy_index' = NextIndex(proxy_index, Proxies)
    /\ elog' = elog \o <<Ev("next_proxy", attempt), Ev("backoff", BACKOFF_UNIT_MS * attempt)>>
    /\ attempt' = attempt + 1
    /\ stats' = [stats EXCEPT !.detail_failures = @ + 1]
    /\ pc' = "open_tab"
    /\ UNCHANGED <<call, storeVars, max_results, results_count, ua_index, cards, idx,
                   business, enriched, stats0, outcome>>

(* Mutant of Retry: the wait is the same after every attempt. *)
RetryFlatBackoff ==
    /\ pc = "cleanup"
    /\ attempt < MAX_DETAIL_ATTEMPTS
    /\ tab' = IF tab = "open" THEN "closed" ELSE tab
    /\ proxy_index' = NextIndex(proxy_index, Proxies)
    /\ elog' = elog \o <<Ev("next_proxy", attempt), Ev("backoff", BACKOFF_UNIT_MS)>>
    /\ attempt' = attempt + 1
    /\ pc' = "open_tab"
    /\ UNCHANGED <<call, storeVars, max_results, results_count, stats, ua_index, cards, idx,
                   business, enriched, stats0, outcome>>

(* Mutant of Retry: rate_limiter.wait() is called again before the next
   attempt. *)
RetryRateWaits ==
    /\ pc = "cleanup"
    /\ attempt < MAX_DETAIL_ATTEMPTS
    /\ tab' = IF tab = "open" THEN "closed" ELSE tab
    /\ proxy_index' = NextIndex(proxy_index, Proxies)
    /\ elog' = elog \o <<Ev("next_proxy", attempt), Ev("backoff", BACKOFF_UNIT_MS * attempt),
                          Ev("rate_wait", attempt)>>
    /\ attempt' = attempt + 1
    /\ pc' = "open_tab"
    /\ UNCHANGED <<call, storeVars, max_results, results_count, stats, ua_index, cards, idx,
                   business, enriched, stats0, outcome>>

(* A failed attempt that is not the last: the finally block closes the tab,
   then next_proxy and the backoff wait, then the next attempt. *)
Retry ==
    /\ pc = "cleanup"
    /\ attempt < MAX_DETAIL_ATTEMPTS
    /\ tab' = IF tab = "open" THEN "closed" ELSE tab
    /\ proxy_index' = NextIndex(proxy_index, Proxies)
    /\ elog' = elog \o <<Ev("next_proxy", attempt), Ev("backoff", BACKOFF_UNIT_MS * attempt)>>
    /\ attempt' = attempt + 1
    /\ pc' = "open_tab"
    /\ UNCHANGED <<call, storeVars, max_results, results_count, stats, ua_index, cards, idx,
                   business, enriched, stats0, outcome>>

(* Mutant of GiveUp: after the last attempt DetailPageEnrichmentError is
   raised and nothing in handle_page or run_async catches it short of the
   caller. *)
GiveUpRaises ==
    /\ pc = "cleanup"
    /\ attempt >= MAX_DETAIL_ATTEMPTS
    /\ tab' = IF tab = "open" THEN "closed" ELSE tab
    /\ stats' = [stats EXCEPT !.detail_failures = @ + 1]
    /\ pc' = "ended"
    /\ outcome' = "raised"
    /\ UNCHANGED <<call, storeVars, max_results, results_count, proxy_index, ua_index, cards,
                   idx, business, attempt, elog, enriched, stats0>>

(* Mutant of GiveUp: the loop is left one attempt early. *)
GiveUpEarly ==
    /\ pc = "cleanup"
    /\ attempt >= MAX_DETAIL_ATTEMPTS - 1
    /\ tab' = IF tab = "open" THEN "closed" ELSE tab
    /\ stats' = [stats EXCEPT !.detail_failures = @ + 1]
    /\ enriched' = "false"
    /\ pc' = "after_enrich"
    /\ UNCHANGED <<call, storeVars, max_results, results_count, proxy_index, ua_index, cards,
                   idx, business, attempt, elog, stats0, outcome>>

(* The last attempt failed: the finally block closes the tab, the failure
   is counted and enrich returns False. *)
GiveUp ==
    /\ pc = "cleanup"
    /\ attempt >= MAX_DETAIL_ATTEMPTS
    /\ tab' = IF tab = "open" THEN "closed" ELSE tab
    /\ stats' = [stats EXCEPT !.detail_failures = @ + 1]
    /\ enriched' = "false"
    /\ pc' = "after_enrich"
    /\ UNCHANGED <<call, storeVars, max_results, results_count, proxy_index, ua_index, cards,
                   idx, business, attempt, elog, stats0, outcome>>

(* Back in handle_page after enrich returned: save_business(business). *)
SaveAfterEnrich ==
    /\ pc = "after_enrich"
    /\ CallSave("s", business)
    /\ pc' = "saving_card"
    /\ attempt' = 0
    /\ tab' = "none"
    /\ elog' = <<>>
    /\ stats0' = stats
    /\ UNCHANGED <<call, store, max_results, results_count, stats, proxy_index, ua_index,
                   cards, idx, business, enriched, outcome>>

(* Mutant of CallEnrich: the call is counted before the URL is looked at. *)
CallEnrichCountsFirst(b) ==
    /\ pc = "init"
    /\ business' = b
    /\ stats' = [stats EXCEPT !.total_attempted = @ + 1]
    /\ IF b.google_maps_url = NULL
       THEN /\ enriched' = "false"
            /\ pc' = "returned"
            /\ UNCHANGED stats0
       ELSE /\ stats0' = stats
            /\ pc' = "rate_wait_detail"
            /\ UNCHANGED enriched
    /\ UNCHANGED <<call, storeVars, max_results, results_count, proxy_index, ua_index, cards,
                   idx, attempt, tab, elog, outcome>>

(* The first lines of visit_detail_page_and_enrich, called on the dict b:
   without a URL it returns False; with one the call is counted and the
   function goes on to the rate limiter. *)
CallEnrich(b) ==
    /\ pc = "init"
    /\ business' = b
    /\ IF b.google_maps_url = NULL
       THEN /\ enriched' = "false"
            /\ pc' = "returned"
            /\ UNCHANGED <<stats, stats0>>
       ELSE /\ stats' = [stats EXCEPT !.total_attempted = @ + 1]
            /\ stats0' = stats
            /\ pc' = "rate_wait_detail"
            /\ UNCHANGED enriched
    /\ UNCHANGED <<call, storeVars, max_results, results_count, proxy_index, ua_index, cards,
                   idx, attempt, tab, elog, outcome>>

(* The function returns to its caller. *)
EnrichReturns ==
    /\ pc = "after_enrich"
    /\ pc' = "returned"
    /\ UNCHANGED <<call, storeVars, max_results, results_count, stats, proxy_index, ua_index,
                   cards, idx, business, attempt, tab, elog, enriched, stats0, outcome>>

----------------------------------------------------------------------------

Init ==
    /\ store = <<>>
    /\ sv = [a \in Actors |-> Idle]
    /\ nsaves = [a \in Actors |-> 0]
    /\ pc = "init"
    /\ max_results \in 1..MaxResultsBound
    /\ results_count = 0
    /\ stats = [total_attempted |-> 0, total_successful |-> 0, captcha_encounters |-> 0,
                detail_failures |-> 0, detail_successes |-> 0]
    /\ proxy_index = -1
    /\ ua_index = -1
    /\ cards = <<>>
    /\ idx = 0
    /\ business = NoBusiness
    /\ attempt = 0
    /\ tab = "none"
    /\ elog = <<>>
    /\ enriched = "none"
    /\ stats0 = stats
    /\ outcome = "running"
    /\ call = NoCall

(* The steps of save_business calls *)
SaveStep(a) ==
    \/ SaveFind(a)
    \/ SaveInsert(a)
    \/ SaveInsertDupKey(a)

(* The steps of visit_detail_page_and_enrich after its first lines. *)
EnrichStep ==
    \/ RateWaitDetail
    \/ \E ok \in BOOLEAN : OpenTab(ok)
    \/ \E o \in {"ok", "timeout", "failed"} : Navigate(o)
    \/ \E blocked \in BOOLEAN : CheckCaptcha(blocked)
    \/ \E d \in DetailSet : ParseDetail(d)
    \/ SaveDetailDone
    \/ \E ok \in BOOLEAN : CloseTab(ok)
    \/ Retry
    \/ GiveUp

(* The steps of the session other than the extraction of the listing. *)
CrawlStep ==
    \/ Start
    \/ DriverFails
    \/ \E blocked \in BOOLEAN : ListingCheck(blocked)
    \/ RunCatchCaptcha
    \/ CrawlerAbsorbs
    \/ LoopExit
    \/ SkipDuplicate
    \/ CardSaveDirect
    \/ CardEnrich
    \/ SaveCardDone
    \/ RateWaitCard
    \/ EnrichStep
    \/ SaveAfterEnrich

SessionStep ==
    \/ \E listing \in Listings : Extract(listing)
    \/ CrawlStep

(* One crawl session against the collection. *)
Next ==
    \/ SessionStep
    \/ SaveStep("s")

Spec == Init /\ [][Next]_vars

(* The session keeps running: every await of the session returns (the
   navigation and the selector waits have timeouts, the backoff and the
   rate limiter waits are finite, update_one returns). *)
SpecLive == Init /\ [][Next]_vars /\ WF_vars(Next)

NextEnrich ==
    \/ \E b \in CardSet : CallEnrich(b)
    \/ EnrichStep
    \/ EnrichReturns
    \/ SaveFind("s")
    \/ SaveInsert("s")

(* visit_detail_page_and_enrich called on a record by a caller other than
   handle_page (the legacy wrapper enrich_with_detail_page, a test) on a
   crawler just constructed, with nobody else writing the collection: the
   insert of the call's save cannot hit the unique index. *)
SpecEnrich == Init /\ [][NextEnrich]_vars

MaxEnrichCalls == 2     \* most enrich calls that are counted in total_attempted

(* After a failed attempt that is not the last the finally block closes the
   tab and next_proxy is called; the backoff wait, context_page.wait_for_timeout
   on the listing page, is outside the try block: when it raises (the
   listing page or its browser is gone) the exception leaves
   visit_detail_page_and_enrich. *)
BackoffRaises ==
    /\ pc = "cleanup"
    /\ attempt < MAX_DETAIL_ATTEMPTS
    /\ tab' = IF tab = "open" THEN "closed" ELSE tab
    /\ proxy_index' = NextIndex(proxy_index, Proxies)
    /\ elog' = Append(elog, Ev("next_proxy", attempt))
    /\ enriched' = "raised"
    /\ pc' = "returned"
    /\ UNCHANGED <<call, storeVars, max_results, results_count, stats, ua_index, cards, idx,
                   business, attempt, stats0, outcome>>

(* The caller is back from one enrich call and about to make the next. *)
CallAgain ==
    /\ pc = "returned"
    /\ stats.total_attempted < MaxEnrichCalls
    /\ pc' = "init"
    /\ attempt' = 0
    /\ tab' = "none"
    /\ elog' = <<>>
    /\ enriched' = "none"
    /\ UNCHANGED <<call, storeVars, max_results, results_count, stats, proxy_index, ua_index,
                   cards, idx, business, stats0, outcome>>

(* A sequence of visit_detail_page_and_enrich calls on one crawler, every
   await outside the try blocks of the attempts with its outcomes. *)
NextCalls ==
    \/ NextEnrich
    \/ BackoffRaises
    \/ CallAgain

SpecCalls == Init /\ [][NextCalls]_vars

(* The record another session saves while this one crawls: an enriched card
   of the business at u1. *)
RaceRec == Business("n2", PhoneOther, SiteHttp, "u1")

RaceListings == UNION { [1..n -> CardSet] : n \in 0..MaxRaceCards }

(* Another session makes its one save. *)
RaceSave ==
    /\ nsaves["w1"] = 0
    /\ WriterSave("w1", RaceRec)

(* The crawl session, with another session saving into the collection
   meanwhile. *)
NextRace ==
    \/ \E listing \in RaceListings : Extract(listing)
    \/ CrawlStep
    \/ SaveStep("s")
    \/ RaceSave
    \/ SaveStep("w1")

SpecRace == Init /\ [][NextRace]_vars

(* Sessions saving concurrently into the collection. *)
NextStore ==
    \/ \E w \in Writers, b \in WriterRecs : WriterSave(w, b)
    \/ \E w \in Writers : SaveStep(w)
    \/ \E w \in Writers : SaveInsertRetried(w)

SpecStore == Init /\ [][NextStore]_vars

----------------------------------------------------------------------------
(* The helpers called on their own: normalize_phone, is_record_complete and
   is_captcha_present, each on an argument of its own. *)

MaxDigits == 16         \* most digits in a phone text given to normalize_phone

Ones(n) == [i \in 1..n |-> "1"]

(* Phone texts: a run of digits, with something before and after it. *)
PhonePrefixes == { <<>>, <<"+">>, <<"0", "0">>, <<"(">>, <<"+", "0", "0">> }
PhoneSuffixes == { <<>>, <<"-", "7">>, <<"+", "7">>, <<" ">> }

PhoneInputs ==
    { pre \o Ones(n) \o suf : pre \in PhonePrefixes, n \in 0..MaxDigits,
                              suf \in PhoneSuffixes }

(* Records given to is_record_complete. *)
RecordInputs ==
    { Business("n1", p, w, "u1") :
        p \in { pre \o Ones(n) \o suf : pre \in {<<>>, <<"+">>}, n \in {0, 4, 5, 6, MaxDigits},
                                         suf \in {<<>>, <<"-", "7">>, <<" ">>} },
        w \in {NoSite, SiteHttp, SiteBare} }

(* str.lower() *)
UpperCase == <<"A", "B", "C", "D", "E", "F", "G", "H", "I", "J", "K", "L", "M", "N", "O", "P", "Q", "R", "S", "T", "U", "V", "W", "X", "Y", "Z">>
LowerCase == <<"a", "b", "c", "d", "e", "f", "g", "h", "i", "j", "k", "l", "m", "n", "o", "p", "q", "r", "s", "t", "u", "v", "w", "x", "y", "z">>

LowerChar(c) ==
    IF \E i \in 1..Len(UpperCase) : UpperCase[i] = c
    THEN LowerCase[CHOOSE i \in 1..Len(UpperCase) : UpperCase[i] = c]
    ELSE c

(* Mutant of Lowered: the content is scanned as it is. *)
LoweredNot(t) == t

Lowered(t) == [i \in 1..Len(t) |-> LowerChar(t[i])]

(* indicator in content_lower *)
Contains(t, sub) ==
    \E i \in 0..(Len(t) - Len(sub)) : SubSeq(t, i + 1, i + Len(sub)) = sub

blocking_indicators ==
    << <<"u", "n", "u", "s", "u", "a", "l", " ", "t", "r", "a", "f", "f", "i", "c">>,
       <<"c", "a", "p", "t", "c", "h", "a">>,
       <<"s", "o", "r", "r", "y">>,
       <<"a", "u", "t", "o", "m", "a", "t", "e", "d", " ", "r", "e", "q", "u", "e", "s", "t", "s">>,
       <<"v", "e", "r", "i", "f", "y", " ", "y", "o", "u", "'", "r", "e", " ", "n", "o", "t", " ", "a", " ", "r", "o", "b", "o", "t">>,
       <<"o", "u", "r", " ", "s", "y", "s", "t", "e", "m", "s", " ", "h", "a", "v", "e", " ", "d", "e", "t", "e", "c", "t", "e", "d">>,
       <<"p", "l", "e", "a", "s", "e", " ", "v", "e", "r", "i", "f", "y">> >>

(* The rendered HTML of the pages given to is_captcha_present. *)
HtmlSet ==
    { <<"U", "n", "u", "s", "u", "a", "l", " ", "T", "r", "a", "f", "f", "i", "c">>,
      <<"a", " ", "C", "A", "P", "T", "C", "H", "A", " ", "b">>,
      <<"S", "o", "r", "r", "y">>,
      <<"a", "u", "t", "o", "m", "a", "t", "e", "d", " ", "r", "e", "q", "u", "e", "s", "t", "s">>,
      <<"V", "e", "r", "i", "f", "y", " ", "Y", "o", "u", "'", "r", "e", " ", "N", "o", "t", " ", "A", " ", "R", "o", "b", "o", "t">>,
      <<"O", "u", "r", " ", "s", "y", "s", "t", "e", "m", "s", " ", "h", "a", "v", "e", " ", "d", "e", "t", "e", "c", "t", "e", "d">>,
      <<"P", "L", "E", "A", "S", "E", " ", "V", "E", "R", "I", "F", "Y">>,
      <<"M", "a", "p", "s", " ", "r", "e", "s", "u", "l", "t", "s">>,
      <<>>,
      <<"s", "o", "r", "r", " ", "y">>,
      <<"u", "n", "u", "s", "u", "a", "l", " ", " ", "t", "r", "a", "f", "f", "i", "c">>,
      <<"x", "S", "O", "R", "R", "Y", "x">> }

(* A page: whether it has the iframe and the form the selectors look for,
   its HTML, and the page query that raises, if one does. *)
PageInputs ==
    [iframe : BOOLEAN, form : BOOLEAN, html : HtmlSet,
     fails : {"none", "iframe", "form", "content"}]

(* is_captcha_present: the result and the page queries made, in order. *)
is_captcha_present(page) ==
    IF page.fails = "iframe" THEN [ret |-> FALSE, queries |-> <<"iframe">>]
    ELSE IF page.iframe THEN [ret |-> TRUE, queries |-> <<"iframe">>]
    ELSE IF page.fails = "form" THEN [ret |-> FALSE, queries |-> <<"iframe", "form">>]
    ELSE IF page.form THEN [ret |-> TRUE, queries |-> <<"iframe", "form">>]
    ELSE IF page.fails = "content"
    THEN [ret |-> FALSE, queries |-> <<"iframe", "form", "content">>]
    ELSE LET content_lower == Lowered(page.html) IN
         [ret |-> \E k \in 1..Len(blocking_indicators) :
                     Contains(content_lower, blocking_indicators[k]),
          queries |-> <<"iframe", "form", "content">>]

CallNormalizePhone(p) ==
    /\ call' = [fn |-> "normalize_phone", arg |-> p, ret |-> normalize_phone(p)]
    /\ UNCHANGED <<storeVars, sessionVars>>

CallIsRecordComplete(r) ==
    /\ call' = [fn |-> "is_record_complete", arg |-> r, ret |-> is_record_complete(r)]
    /\ UNCHANGED <<storeVars, sessionVars>>

CallIsCaptchaPresent(page) ==
    /\ call' = [fn |-> "is_captcha_present", arg |-> page,
                ret |-> is_captcha_present(page).ret,
                queries |-> is_captcha_present(page).queries]
    /\ UNCHANGED <<storeVars, sessionVars>>

NextFn ==
    \/ \E p \in PhoneInputs : CallNormalizePhone(p)
    \/ \E r \in RecordInputs : CallIsRecordComplete(r)
    \/ \E page \in PageInputs : CallIsCaptchaPresent(page)

SpecFn == Init /\ [][NextFn]_vars

----------------------------------------------------------------------------
(* utils/anti_bot.Rotation, called directly: a Rotation over given lists
   and any sequence of next_proxy / next_user_agent calls on it.  The
   record in `call` keeps the lists, the number of calls made on each
   cursor and what the last call on each cursor returned. *)

MaxRotationLen == 3     \* longest proxy or user-agent list
MaxRotationCalls == 4   \* most calls on one cursor

RotationPool == <<"e1", "e2", "e3", "e4", "e5">>
RotationLists == {SubSeq(RotationPool, 1, n) : n \in 0..MaxRotationLen}

(* Rotation.__init__ *)
NewRotation(proxies, user_agents) ==
    /\ call = NoCall
    /\ call' = [fn |-> "Rotation", proxies |-> proxies, user_agents |-> user_agents,
                proxy_calls |-> 0, ua_calls |-> 0,
                proxy_ret |-> NULL, ua_ret |-> NULL]
    /\ proxy_index' = -1
    /\ ua_index' = -1
    /\ UNCHANGED <<storeVars, pc, max_results, results_count, stats, cards, idx, business,
                   attempt, tab, elog, enriched, stats0, outcome>>

(* Rotation.next_proxy *)
next_proxy ==
    /\ call.fn = "Rotation" /\ call.proxy_calls < MaxRotationCalls
    /\ proxy_index' = NextIndex(proxy_index, call.proxies)
    /\ call' = [call EXCEPT !.proxy_calls = @ + 1,
                            !.proxy_ret = NextElement(proxy_index, call.proxies)]
    /\ UNCHANGED <<storeVars, pc, max_results, results_count, stats, ua_index, cards, idx,
                   business, attempt, tab, elog, enriched, stats0, outcome>>

(* Rotation.next_user_agent *)
next_user_agent ==
    /\ call.fn = "Rotation" /\ call.ua_calls < MaxRotationCalls
    /\ ua_index' = NextIndex(ua_index, call.user_agents)
    /\ call' = [call EXCEPT !.ua_calls = @ + 1,
                            !.ua_ret = NextElement(ua_index, call.user_agents)]
    /\ UNCHANGED <<storeVars, pc, max_results, results_count, stats, proxy_index, cards,
                   idx, business, attempt, tab, elog, enriched, stats0, outcome>>

NextRotation ==
    \/ \E proxies \in RotationLists, user_agents \in RotationLists :
          NewRotation(proxies, user_agents)
    \/ next_proxy
    \/ next_user_agent

SpecRotation == Init /\ [][NextRotation]_vars

----------------------------------------------------------------------------
(* Properties of the persistence gateway *)

(* The identity key of two documents is the same: the same detail URL, or,
   both without a URL, the same phone. *)
SameIdentity(d, e) ==
    \/ d.google_maps_url # NULL /\ d.google_maps_url = e.google_maps_url
    \/ /\ d.google_maps_url = NULL /\ e.google_maps_url = NULL
       /\ d.phone = e.phone

(* The document carries every field the dict b provided. *)
Carries(doc, b) ==
    /\ doc.name = b.name /\ doc.phone = b.phone
    /\ doc.website = b.website /\ doc.google_maps_url = b.google_maps_url

(* The step completes the save_business call of actor a. *)
Completes(a) == sv[a].phase \in {"find", "insert"} /\ sv'[a].phase = "done"

(* Nothing was written between the lookup of a's call and this step. *)
Undisturbed(a) == sv[a].phase = "find" \/ store = sv[a].seen

(* C1: whatever the interleaving of the saves of concurrent sessions, no two
   documents of the collection have the same identity key. *)
C1_NoDuplicateIdentity ==
    \A i, j \in 1..Len(store) : i < j => ~SameIdentity(store[i], store[j])

(* Two sessions raced on one key: both calls are done, for the same key, and
   one of them lost the insert. *)
C1_Witness ==
    /\ sv["w1"].phase = "done" /\ sv["w2"].phase = "done"
    /\ KeyKind(sv["w1"].rec) # "none"
    /\ SameIdentity(sv["w1"].rec, sv["w2"].rec)
    /\ sv["w1"].res = "created" /\ sv["w2"].res \in {"dupkey", "updated"}
    /\ Len(store) >= 1

(* C2: a save of a record whose key is not in the collection reports
   created and leaves exactly one document for the key; a save of a record
   whose key has exactly one document reports updated and leaves exactly
   one. *)
C2_SaveTwice ==
    [][\A a \in Actors :
         (Completes(a) /\ Undisturbed(a) /\ KeyKind(sv[a].rec) # "none") =>
            /\ Matches(store, sv[a].rec) = {} =>
                  /\ sv'[a].res = "created"
                  /\ Cardinality(Matches(store', sv[a].rec)) = 1
            /\ Cardinality(Matches(store, sv[a].rec)) = 1 =>
                  /\ ~SaveReturn(sv'[a].res)
                  /\ Cardinality(Matches(store', sv[a].rec)) = 1]_vars

(* C8: a save whose insert hits the unique index because the key was
   inserted since its lookup reports updated, and the document of that key
   then carries the fields the save provided. *)
C8_ConflictIsUpdate ==
    [][\A a \in Actors :
         (/\ sv[a].phase = "insert" /\ sv'[a].phase = "done"
          /\ UniqueViolation(store, sv[a].rec.google_maps_url, 0)
          /\ Matches(store, sv[a].rec) # {}) =>
            /\ ~SaveReturn(sv'[a].res)
            /\ \E i \in Matches(store', sv[a].rec) : Carries(store'[i], sv[a].rec)]_vars

(* The documents whose phone normalises to n. *)
WithNormalizedPhone(st, n) ==
    { i \in 1..Len(st) : normalize_phone(st[i].phone) = n }

(* C10: when the collection holds one document without URL whose phone
   normalises to n, a save of a record without URL whose phone normalises to
   n is an update of that document: there is still one document for n, and
   it carries the saved fields. *)
C10_SamePhoneCollapses ==
    [][\A a \in Actors :
         LET b == sv[a].rec
             n == normalize_phone(b.phone)
         IN  (/\ Completes(a) /\ Undisturbed(a)
              /\ KeyKind(b) = "phone" /\ n # NoPhone
              /\ Cardinality(WithNormalizedPhone(store, n)) = 1
              /\ \A i \in WithNormalizedPhone(store, n) : store[i].google_maps_url = NULL) =>
                /\ sv'[a].res = "updated"
                /\ Cardinality(WithNormalizedPhone(store', n)) = 1
                /\ \A i \in WithNormalizedPhone(store', n) : Carries(store'[i], b)]_vars

(* C9: a save of a record with neither URL nor phone is rejected at once:
   the collection is unchanged and no insert is tried; the caller counts
   nothing, does not call save_business again for the card and goes on to
   the next card. *)
Identityless(b) == b.google_maps_url = NULL /\ b.phone = NoPhone

C9_IdentitylessRejected ==
    [][/\ (sv["s"].phase = "find" /\ Identityless(sv["s"].rec) /\ sv'["s"] # sv["s"]) =>
            /\ store' = store
            /\ sv'["s"].phase = "done" /\ sv'["s"].res = "rejected"
       /\ (pc = "saving_card" /\ sv["s"].phase = "done" /\ Identityless(sv["s"].rec)
             /\ pc' # pc) =>
            /\ pc' = "rate_wait_card"
            /\ store' = store /\ nsaves' = nsaves /\ results_count' = results_count]_vars

(* The session's save of a card without URL and phone came back rejected. *)
C9_Witness ==
    /\ pc = "saving_card" /\ sv["s"].phase = "done" /\ sv["s"].res = "rejected"
    /\ Identityless(business) /\ sv["s"].rec = business /\ nsaves["s"] >= 1

----------------------------------------------------------------------------
(* C11: no step changes the created_at of a document of the collection,
   whichever save it is and however often the key is saved again, and no
   document leaves the collection; a document that enters it carries the
   time of the save that inserted it. *)
C11_CreatedAtSetOnce ==
    [][/\ Len(store') >= Len(store)
       /\ \A i \in 1..Len(store) : store'[i].created_at = store[i].created_at
       /\ \A i \in (Len(store) + 1)..Len(store') :
             \E a \in Actors :
                /\ sv[a].phase = "insert" /\ sv'[a].res = "created"
                /\ store'[i].created_at = sv[a].now
                /\ Carries(store'[i], sv[a].rec)]_vars

(* A later save of a key has updated the document an earlier save inserted. *)
C11_Witness ==
    \E a \in Writers : \E i \in 1..Len(store) :
        /\ sv[a].phase = "done" /\ sv[a].res = "updated"
        /\ Carries(store[i], sv[a].rec)
        /\ store[i].created_at < sv[a].now

----------------------------------------------------------------------------
(* Properties of the helpers *)

DigitsOf(t) == SelectSeq(t, LAMBDA c : c \in Digits)

(* C14: is_record_complete(r) is true exactly when the phone of r
   normalises to a value with at least 6 digits and the website of r starts
   with "http". *)
C14_CompleteIffNormalizedPhone ==
    call.fn = "is_record_complete" =>
        (call.ret <=> /\ Len(DigitsOf(normalize_phone(call.arg.phone))) >= 6
                      /\ StartsWithHttp(call.arg.website))

(* The digits the text keeps once a leading "00" has become "+". *)
DigitCount(t) ==
    LET d == StripPhone(t) IN
    IF Len(d) >= 2 /\ d[1] = "0" /\ d[2] = "0"
    THEN Len(DigitsOf(t)) - 2 ELSE Len(DigitsOf(t))

(* C15: normalize_phone returns a value exactly when 6 to 15 digits are
   left, with or without a "+" before them; the value is made of digits
   and at most one "+", at its front, and begins with "+" when the digits
   began with "00". *)
C15_NormalizeBounds ==
    call.fn = "normalize_phone" =>
        /\ call.ret # NoPhone <=> DigitCount(call.arg) \in 6..15
        /\ \A i \in 1..Len(call.ret) :
              /\ call.ret[i] \in Digits \cup {"+"}
              /\ call.ret[i] = "+" => i = 1
        /\ (/\ call.ret # NoPhone /\ Len(StripPhone(call.arg)) >= 2
            /\ SubSeq(StripPhone(call.arg), 1, 2) = <<"0", "0">>) =>
              call.ret[1] = "+"

(* The HTML has one of the indicator phrases in it, in any case. *)
HasPhraseAnyCase(html) ==
    \E k \in 1..Len(blocking_indicators) :
       \E i \in 0..(Len(html) - Len(blocking_indicators[k])) :
          \A j \in 1..Len(blocking_indicators[k]) :
             LowerChar(html[i + j]) = blocking_indicators[k][j]

(* The page queries made are the iframe lookup, then the form lookup unless
   the iframe matched, then the read of the HTML unless one of the two
   matched. *)
QueriesInOrder(page, queries) ==
    queries = IF page.iframe THEN <<"iframe">>
              ELSE IF page.form THEN <<"iframe", "form">>
              ELSE <<"iframe", "form", "content">>

(* The queries made begin the list iframe, form, content, and none is made
   after a check that matched. *)
QueriesStopAtMatch(page, queries) ==
    /\ queries = SubSeq(<<"iframe", "form", "content">>, 1, Len(queries))
    /\ Len(queries) >= 2 => ~page.iframe
    /\ Len(queries) >= 3 => ~page.form

(* C16 as stated: is_captcha_present is true exactly when the page has the
   iframe, or the form, or an indicator phrase in its HTML (in any case),
   and the three checks run in that order, a match ending them. *)
C16_BlockedIffIndicator ==
    call.fn = "is_captcha_present" =>
        /\ call.ret <=> \/ call.arg.iframe \/ call.arg.form
                        \/ HasPhraseAnyCase(call.arg.html)
        /\ QueriesStopAtMatch(call.arg, call.queries)

(* The first page query that raises comes before any check that matches. *)
RaisesBeforeMatch(page) ==
    \/ page.fails = "iframe"
    \/ page.fails = "form" /\ ~page.iframe
    \/ page.fails = "content" /\ ~page.iframe /\ ~page.form

(* C16 amended: when no page query raises before a check matches, the
   result is as stated and the queries are made in the stated order; when
   one does, the result is false and no query is made after it. *)
C16_BlockedIffIndicatorUnlessRaised ==
    call.fn = "is_captcha_present" =>
        IF RaisesBeforeMatch(call.arg)
        THEN /\ call.ret = FALSE
             /\ call.queries[Len(call.queries)] = call.arg.fails
             /\ \A i \in 1..(Len(call.queries) - 1) : call.queries[i] # call.arg.fails
        ELSE /\ call.ret <=> \/ call.arg.iframe \/ call.arg.form
                             \/ HasPhraseAnyCase(call.arg.html)
             /\ QueriesInOrder(call.arg, call.queries)

(* A page without iframe and form was found blocked by a phrase written in
   capitals, after all three queries. *)
C16_Witness ==
    /\ call.fn = "is_captcha_present" /\ call.ret = TRUE
    /\ ~call.arg.iframe /\ ~call.arg.form /\ call.arg.fails = "none"
    /\ call.arg.html # Lowered(call.arg.html)
    /\ call.queries = <<"iframe", "form", "content">>

----------------------------------------------------------------------------
(* Properties of the detail-page retry machine *)

Failures == {"blocked", "timeout", "failed"}

(* The attempts of the enrich call, and how each of them ended. *)
AttemptsOf(log) == SelectSeq(log, LAMBDA ev : ev.e = "attempt")
OutcomesOf(log) == SelectSeq(log, LAMBDA ev : ev.e \in Failures \cup {"success"})
BackoffsOf(log) == SelectSeq(log, LAMBDA ev : ev.e = "backoff")

EnrichReturned == pc = "after_enrich"

AllTimedOut ==
    /\ Len(OutcomesOf(elog)) = Len(AttemptsOf(elog))
    /\ \A i \in 1..Len(OutcomesOf(elog)) : OutcomesOf(elog)[i].e = "timeout"

(* C3: when every attempt of an enrich call timed out, the call returns
   false after exactly MAX_ATTEMPTS (3) attempts, detail_failures is one
   more than before the call and detail_successes is as before. *)
C3_AllTimeouts ==
    (EnrichReturned /\ AllTimedOut) =>
        /\ enriched = "false"
        /\ Len(AttemptsOf(elog)) = 3
        /\ stats.detail_failures = stats0.detail_failures + 1
        /\ stats.detail_successes = stats0.detail_successes

C3_Witness ==
    /\ EnrichReturned /\ AllTimedOut /\ Len(AttemptsOf(elog)) >= 1 /\ enriched = "false"

(* The first k attempts ended blocked and attempt k+1 ended in success. *)
BlockedThenSuccess(k) ==
    /\ Len(OutcomesOf(elog)) = k + 1
    /\ \A i \in 1..k : OutcomesOf(elog)[i] = Ev("blocked", i)
    /\ OutcomesOf(elog)[k + 1] = Ev("success", k + 1)

(* C4: for every k < MAX_ATTEMPTS, when the first k attempts were blocked
   and attempt k+1 succeeded, enrich returns true, captcha_encounters grew
   by k, detail_successes by 1 and detail_failures not at all. *)
C4_BlockedThenSuccess ==
    \A k \in 0..2 :
        (EnrichReturned /\ BlockedThenSuccess(k)) =>
            /\ enriched = "true"
            /\ stats.captcha_encounters = stats0.captcha_encounters + k
            /\ stats.detail_successes = stats0.detail_successes + 1
            /\ stats.detail_failures = stats0.detail_failures

C4_Witness == EnrichReturned /\ BlockedThenSuccess(2) /\ enriched = "true"

(* C5: in the events of an enrich call, a failed attempt n < MAX_ATTEMPTS is
   followed by one next_proxy and then a wait of n * 2000 ms, and only then
   by attempt n+1; next_proxy and the wait occur nowhere else (not after
   the last attempt, not after a success); the waits are 2000, 4000. *)
C5_RotateThenBackoff ==
    LET n == Len(elog) IN
    /\ \A i \in 1..n :
         /\ (elog[i].e \in Failures /\ elog[i].n < 3 /\ i < n) =>
               /\ i + 2 <= n
               /\ elog[i + 1] = Ev("next_proxy", elog[i].n)
               /\ elog[i + 2] = Ev("backoff", elog[i].n * 2000)
               /\ i + 3 <= n => elog[i + 3] = Ev("attempt", elog[i].n + 1)
         /\ (elog[i].e \in Failures /\ elog[i].n >= 3) => i = n
         /\ elog[i].e = "success" => i = n
         /\ elog[i].e = "next_proxy" => i > 1 /\ elog[i - 1].e \in Failures
         /\ elog[i].e = "backoff" => i > 1 /\ elog[i - 1].e = "next_proxy"
         /\ (elog[i].e = "attempt" /\ elog[i].n > 1) => elog[i - 1].e = "backoff"
    /\ \A i \in 1..Len(BackoffsOf(elog)) : BackoffsOf(elog)[i].n = i * 2000
    /\ (pc = "open_tab" /\ attempt > 1) => elog[n].e = "backoff"
    /\ (pc = "after_enrich") => elog[n].e \in Failures \cup {"success"}

(* An enrich call that failed three times has returned: two rotations and
   the waits 2000 and 4000 lie behind it. *)
C5_Witness ==
    /\ EnrichReturned /\ enriched = "false"
    /\ Len(BackoffsOf(elog)) = 2
    /\ BackoffsOf(elog)[1].n = 2000 /\ BackoffsOf(elog)[2].n = 4000

(* C17: an enrich call that has begun returns.  When it has returned it has
   made between 1 and MAX_ATTEMPTS attempts, each with one outcome; it
   returned true when the last attempt ended in success and every attempt
   before it ended blocked, timed out or failed, and false when it made
   exactly MAX_ATTEMPTS attempts that all ended blocked, timed out or
   failed.  No attempt is made after a success. *)
C17_EnrichTerminates ==
    /\ (pc = "rate_wait_detail") ~> EnrichReturned
    /\ [](Len(AttemptsOf(elog)) <= MAX_DETAIL_ATTEMPTS)
    /\ [](\A i \in 1..Len(OutcomesOf(elog)) :
            OutcomesOf(elog)[i].e = "success" =>
                EnrichReturned /\ i = Len(OutcomesOf(elog)))
    /\ [](EnrichReturned =>
            LET n == Len(AttemptsOf(elog))
                o == OutcomesOf(elog)
            IN  /\ n \in 1..MAX_DETAIL_ATTEMPTS /\ Len(o) = n
                /\ \A i \in 1..n : AttemptsOf(elog)[i].n = i /\ o[i].n = i
                /\ enriched \in {"true", "false"}
                /\ enriched = "true" <=> o[n].e = "success"
                /\ enriched = "false" <=>
                      (n = MAX_DETAIL_ATTEMPTS /\ \A i \in 1..n : o[i].e \in Failures))

(* An enrich call returned false after one attempt that ended blocked, one
   that timed out and one that failed. *)
C17_Witness ==
    /\ EnrichReturned /\ enriched = "false"
    /\ Len(OutcomesOf(elog)) = 3
    /\ {OutcomesOf(elog)[i].e : i \in 1..3} = Failures

(* The session is inside an attempt, between new_page() and the end of the
   attempt's finally block. *)
InAttempt ==
    pc \in {"navigate", "captcha_check", "parse_detail", "saving_detail", "close_tab",
            "cleanup"}

(* C19: a detail tab is open only inside an attempt; a tab is opened only
   as an attempt begins and only when no tab is open, so that at most one
   is open at a time; when the next attempt starts and when enrich has
   returned the tab of the attempt before is closed, whether that attempt
   ended in success, blocked, timed out or failed. *)
C19_OneTabAtATime ==
    /\ [](tab = "open" => InAttempt)
    /\ []((pc = "open_tab" \/ EnrichReturned) => tab # "open")
    /\ [][tab' = "open" =>
            \/ tab = "open" /\ attempt' = attempt
            \/ tab # "open" /\ pc = "open_tab" /\ pc' = "navigate"]_vars
    /\ [][(InAttempt /\ ~InAttempt') =>
            /\ tab' # "open"
            /\ tab = "open" => tab' = "closed"]_vars

(* An enrich call has returned after a blocked attempt, an attempt that
   timed out and a successful one, and the tab is closed. *)
C19_Witness ==
    /\ EnrichReturned /\ enriched = "true" /\ tab = "closed"
    /\ Len(OutcomesOf(elog)) = 3
    /\ OutcomesOf(elog)[1].e = "blocked" /\ OutcomesOf(elog)[2].e = "timeout"

(* C20: a call of enrich on a record without detail URL returns false in
   its first step and changes nothing else: no tab, no rate limiter wait or
   other event of an enrich call, no move of a rotation cursor, no save,
   no change of the collection, of results_count or of a statistic. *)
C20_NoUrlNoEffect ==
    /\ [][(pc = "init" /\ pc' # pc /\ business'.google_maps_url = NULL) =>
            /\ pc' = "returned" /\ enriched' = "false"
            /\ stats' = stats /\ tab' = tab /\ elog' = elog /\ attempt' = attempt
            /\ proxy_index' = proxy_index /\ ua_index' = ua_index
            /\ store' = store /\ sv' = sv /\ nsaves' = nsaves
            /\ results_count' = results_count]_vars
    /\ []((pc = "returned" /\ business.google_maps_url = NULL) =>
            /\ enriched = "false"
            /\ stats.total_attempted = 0 /\ stats.detail_failures = 0
            /\ stats.captcha_encounters = 0 /\ stats.detail_successes = 0
            /\ tab = "none" /\ elog = <<>> /\ proxy_index = -1 /\ ua_index = -1
            /\ store = <<>> /\ nsaves["s"] = 0)
    /\ [](pc = "returned" => business.google_maps_url = NULL \/ stats.total_attempted = 1)

(* enrich has returned false for a card that has a name and a phone but no
   detail URL. *)
C20_Witness ==
    /\ pc = "returned" /\ enriched = "false"
    /\ business.google_maps_url = NULL /\ business.phone # NoPhone

(* C18: the save made inside an attempt writes the record: when it
   completes, a document of the collection carries the fields of the dict.
   The success counters grow only in the step that follows that save and
   the close of the tab, and whenever enrich has returned true the
   collection has a document for the card's URL. *)
C18_SavedBeforeCounted ==
    /\ [][(pc = "saving_detail" /\ Completes("s")) =>
            \E i \in 1..Len(store') : Carries(store'[i], sv["s"].rec)]_vars
    /\ [][stats'.detail_successes # stats.detail_successes =>
            /\ pc = "close_tab" /\ sv["s"].phase = "idle"
            /\ elog[Len(elog)] = Ev("saved", attempt)
            /\ enriched' = "true" /\ pc' = "after_enrich"
            /\ business_exists(store, business.google_maps_url)]_vars
    /\ []((EnrichReturned /\ enriched = "true") =>
            business_exists(store, business.google_maps_url))

----------------------------------------------------------------------------
(* Properties of the orchestrator *)

(* C6: when the listing page is found blocked, the session ends by raising
   to the caller of run, and no card was extracted, enriched or saved. *)
C6_ListingBlockedRaises ==
    [][(pc = "handler_raised" /\ pc' # pc) =>
          /\ outcome' = "raised"
          /\ cards' = <<>> /\ store' = store /\ nsaves' = nsaves]_vars

(* No field the listing card had was lost from the dict. *)
KeepsListingFields(b, card) ==
    /\ b.name = card.name /\ b.google_maps_url = card.google_maps_url
    /\ card.phone # NoPhone => b.phone # NoPhone

(* C7: a failed attempt leads to the next attempt or, after the last one, to
   enrich returning false, never to the end of the session (the session
   raises only before any card was extracted).  When enrich returns false
   the dict still has the card's listing fields (and nothing else when no attempt
   got as far as the merge), the next step saves it, after which the
   collection has a document for its URL; then the loop goes on with the
   next card, and it ends only at the end of the listing or at max_results,
   with the statistics returned. *)
C7_EnrichFailureNotFatal ==
    /\ [](outcome = "raised" => cards = <<>>)
    /\ []((EnrichReturned /\ enriched = "false") =>
            /\ outcome = "running"
            /\ KeepsListingFields(business, cards[idx])
            /\ (\A i \in 1..Len(elog) : elog[i].e # "saved") => business = cards[idx])
    /\ [][/\ (pc = "cleanup" /\ pc' # pc) =>
                /\ outcome' = "running"
                /\ \/ pc' = "open_tab" /\ attempt < 3
                   \/ pc' = "after_enrich" /\ enriched' = "false"
          /\ (EnrichReturned /\ enriched = "false" /\ pc' # pc) =>
                /\ pc' = "saving_card"
                /\ sv'["s"].phase = "find" /\ sv'["s"].rec = business
          /\ (pc = "saving_card" /\ enriched = "false" /\ pc' # pc) =>
                /\ pc' = "rate_wait_card"
                /\ business_exists(store', business.google_maps_url)
          /\ (pc = "rate_wait_card" /\ pc' # pc) =>
                /\ pc' = "loop" /\ idx' = idx + 1 /\ cards' = cards
          /\ (pc = "loop" /\ pc' = "ended") =>
                /\ idx > Len(cards) \/ results_count >= max_results
                /\ outcome' = "stats"]_vars

(* The characters of a stored phone: digits, "|" between the values, and
   "+" only at the front of a value. *)
PhoneWellFormed(p) ==
    \A i \in 1..Len(p) :
        /\ p[i] \in Digits \cup {"+", "|"}
        /\ p[i] = "+" => (i = 1 \/ p[i - 1] = "|")

(* C13: every document of the collection that has a phone has one made of
   digits, an optional leading "+" and the separator "|", whether the
   session saved the card enriched or with its listing fields only. *)
C13_StoredPhonesNormalized ==
    \A i \in 1..Len(store) : PhoneWellFormed(store[i].phone)

(* The collection has a document with the detail URL u. *)
UrlStored(st, u) == u # NULL /\ \E i \in 1..Len(st) : st[i].google_maps_url = u

(* C21: when the loop takes up a card whose detail URL the collection
   already has, its one step goes on to the next card (or the end of the
   listing): no enrich call and no save begins, the collection, the
   results_count and the statistics stay as they are, and no tab, rotation
   cursor or event of an enrich call changes. *)
C21_DuplicateSkipped ==
    [][(/\ pc = "loop" /\ idx <= Len(cards) /\ results_count < max_results
        /\ UrlStored(store, cards[idx].google_maps_url)
        /\ <<pc, idx, sv, store, stats, results_count>>
             # <<pc, idx, sv, store, stats, results_count>>') =>
          /\ pc' = "loop" /\ idx' = idx + 1 /\ cards' = cards
          /\ store' = store /\ sv' = sv /\ nsaves' = nsaves
          /\ results_count' = results_count /\ stats' = stats
          /\ tab' = tab /\ elog' = elog /\ attempt' = attempt
          /\ proxy_index' = proxy_index /\ ua_index' = ua_index]_vars

(* The second card of the listing had the URL of the first, which the
   session had stored, and the loop has passed it. *)
C21_Witness ==
    /\ pc = "loop" /\ idx = 3 /\ Len(cards) >= 2
    /\ cards[2].google_maps_url = cards[1].google_maps_url
    /\ UrlStored(store, cards[2].google_maps_url)
    /\ business = cards[2] /\ Len(store) = 1

(* C22: on a Rotation with a non-empty list the k-th next_proxy (next_user_agent)
   call returns element (k-1) mod n of its list, counted from 0, and leaves
   the cursor there; a call on one cursor leaves the other cursor and the
   other cursor's last answer alone; next_proxy on an empty proxy list
   returns no proxy and leaves the cursor at its initial -1. *)
C22_RoundRobin ==
    /\ [](call.fn = "Rotation" =>
            /\ (call.proxy_calls > 0 /\ Len(call.proxies) > 0) =>
                  /\ proxy_index = (call.proxy_calls - 1) % Len(call.proxies)
                  /\ call.proxy_ret = call.proxies[proxy_index + 1]
            /\ (call.ua_calls > 0 /\ Len(call.user_agents) > 0) =>
                  /\ ua_index = (call.ua_calls - 1) % Len(call.user_agents)
                  /\ call.ua_ret = call.user_agents[ua_index + 1]
            /\ Len(call.proxies) = 0 => proxy_index = -1 /\ call.proxy_ret = NULL)
    /\ [][call.fn = "Rotation" =>
            /\ call'.proxy_calls # call.proxy_calls =>
                  ua_index' = ua_index /\ call'.ua_ret = call.ua_ret
            /\ call'.ua_calls # call.ua_calls =>
                  proxy_index' = proxy_index /\ call'.proxy_ret = call.proxy_ret]_vars

(* A Rotation without proxies and with three user agents: next_proxy has
   been called twice and answered no proxy, and the fourth next_user_agent
   call has come round to the first user agent again. *)
C22_Witness ==
    /\ call.fn = "Rotation"
    /\ call.proxies = <<>> /\ call.proxy_calls = 2
    /\ call.proxy_ret = NULL /\ proxy_index = -1
    /\ Len(call.user_agents) = 3 /\ call.ua_calls = 4
    /\ call.ua_ret = call.user_agents[1] /\ ua_index = 0

(* The rate_limiter.wait() calls of the enrich call so far. *)
RateWaitsOf(log) == SelectSeq(log, LAMBDA ev : ev.e = "rate_wait")

(* The enrich call on the card is past its rate-limit wait. *)
EnrichUnderWay ==
    pc \in {"open_tab", "navigate", "captcha_check", "parse_detail", "saving_detail",
            "close_tab", "cleanup", "after_enrich"}

(* C23: an enrich call on a card with a detail URL has called
   rate_limiter.wait() exactly once, as the first thing it did and before
   attempt 1, whatever the number of attempts and backoff waits after it; and
   a card that has been saved (directly, or after its enrich call returned)
   goes through exactly one rate_limiter.wait() before the loop takes the
   next card: the save is followed by the wait and by nothing else, the wait
   by the next card, and the only other way the loop moves on is the skip of
   a card whose URL is stored. *)
C23_RateWaits ==
    /\ [](EnrichUnderWay =>
            /\ business.google_maps_url # NULL
            /\ Len(RateWaitsOf(elog)) = 1
            /\ elog[1] = Ev("rate_wait", 0))
    /\ [](pc = "rate_wait_detail" => elog = <<>>)
    /\ [][/\ (pc = "rate_wait_detail" /\ pc' # pc) =>
                /\ pc' = "open_tab" /\ attempt' = 1
                /\ elog' = <<Ev("rate_wait", 0)>>
          /\ (pc = "saving_card" /\ pc' # pc) =>
                /\ pc' = "rate_wait_card" /\ idx' = idx
          /\ (pc' = "rate_wait_card" /\ pc' # pc) => pc = "saving_card"
          /\ (pc = "rate_wait_card" /\ pc' # pc) =>
                /\ pc' = "loop" /\ idx' = idx + 1
          /\ (pc # "extract" /\ idx' # idx) =>
                /\ idx' = idx + 1
                /\ \/ pc = "rate_wait_card"
                   \/ pc = "loop" /\ UrlStored(store, cards[idx].google_maps_url)]_vars

(* The first card, which has no URL, was saved and waited for; the enrich
   call on the second card is in its third attempt after two backoff waits,
   with its one rate-limit wait at the head of its events. *)
C23_Witness ==
    /\ pc = "navigate" /\ attempt = 3 /\ idx = 2
    /\ cards[1].google_maps_url = NULL /\ Len(store) = 1
    /\ Len(BackoffsOf(elog)) = 2
    /\ Len(RateWaitsOf(elog)) = 1 /\ elog[1] = Ev("rate_wait", 0)

(* C24: captcha_encounters counts the blocked detections and nothing else:
   a step adds one to it when it is a detector check that reported blocked
   (the check of the listing page, or the check of a detail-page attempt),
   and no other step changes it, so the value the session returns is the
   number of blocked detections. *)
C24_CaptchaCountedOnce ==
    [][LET counted == stats'.captcha_encounters - stats.captcha_encounters
           blockedCheck == \/ pc = "listing_check" /\ pc' = "handler_raised"
                           \/ pc = "captcha_check" /\ pc' = "cleanup"
       IN  IF blockedCheck THEN counted = 1 ELSE counted = 0]_vars

(* C25: the results_count a session returns is the number of documents the
   session inserted.  The collection is empty when the session starts and no
   one else writes to it, so that number is the size of the collection. *)
C25_ResultsCountIsInserted ==
    (pc = "ended" /\ outcome = "stats") => results_count = Len(store)

(* C26: a session never inserts more than max_results documents and never
   calls enrich on more than max_results cards.  The collection is empty
   when the session starts and no one else writes to it, so the documents it
   inserted are the documents of the collection; total_attempted counts the
   enrich calls on cards. *)
C26_BoundedByMaxResults ==
    /\ Len(store) <= max_results
    /\ stats.total_attempted <= max_results

(* C27: a save of a record with a phone and no URL whose phone no document
   holds leaves a document with that phone in the collection, whatever else
   the collection holds (another record without URL, say). *)
C27_NewPhoneStored ==
    [][\A a \in Actors :
         LET b == sv[a].rec
         IN  (/\ Completes(a) /\ Undisturbed(a)
              /\ KeyKind(b) = "phone"
              /\ \A i \in 1..Len(store) : store[i].phone # b.phone) =>
                \E i \in 1..Len(store') : store'[i].phone = b.phone]_vars

(* C28: no save takes a value away from a document: a document that has a
   name, a phone, a website or a URL still has one after every step of every
   save, whichever session makes it. *)
C28_NeverNulled ==
    [][\A i \in 1..Len(store) :
         /\ store[i].name # NULL => store'[i].name # NULL
         /\ store[i].phone # NoPhone => store'[i].phone # NoPhone
         /\ store[i].website # NoSite => store'[i].website # NoSite
         /\ store[i].google_maps_url # NULL => store'[i].google_maps_url # NULL]_vars

(* The saves the attempts of the enrich call have completed. *)
SavesOf(log) == SelectSeq(log, LAMBDA ev : ev.e = "saved")

(* C29: once an attempt of an enrich call has saved the record, the call
   makes no further attempt and no second save, also when the close of the
   tab fails after the save: the call returns true with one success
   counted and no failure. *)
C29_SavedOnceThenTrue ==
    /\ Len(SavesOf(elog)) <= 1
    /\ (SavesOf(elog) # <<>> /\ pc \in {"open_tab", "navigate", "captcha_check",
                                        "parse_detail", "saving_detail"}) =>
          attempt = SavesOf(elog)[1].n
    /\ (SavesOf(elog) # <<>> /\ pc = "after_enrich") =>
          /\ enriched = "true"
          /\ stats.detail_successes = stats0.detail_successes + 1
          /\ stats.detail_failures = stats0.detail_failures

(* C30: whenever no enrich call is in progress, every call counted in
   total_attempted is counted in detail_successes or in detail_failures, and
   total_successful is detail_successes. *)
C30_CountersBalance ==
    pc \in {"init", "returned"} =>
        /\ stats.total_attempted = stats.detail_successes + stats.detail_failures
        /\ stats.total_successful = stats.detail_successes

(* C12: results_count never exceeds max_results.  Once it equals
   max_results the session only leaves the loop: no step starts a save or
   an enrich call, writes the collection or changes a statistic.  Until
   then the cards are taken in listing order: the card taken up is the one
   at the loop's position, and the position moves on by one card at a
   time. *)
C12_StopsAtMaxResults ==
    /\ [](results_count <= max_results)
    /\ [](results_count = max_results => pc \in {"rate_wait_card", "loop", "ended"})
    /\ [][/\ results_count = max_results =>
                /\ nsaves' = nsaves /\ store' = store /\ stats' = stats
                /\ results_count' = results_count
                /\ pc' \in {"loop", "ended"}
          /\ (pc = "loop" /\ pc' \in {"saving_card", "rate_wait_detail"}) =>
                /\ results_count < max_results
                /\ business' = cards[idx] /\ idx' = idx
          /\ (pc # "extract") => (cards' = cards /\ idx' \in {idx, idx + 1})]_vars

(* The session ended at max_results with a card of the listing left over. *)
C12_Witness ==
    /\ pc = "ended" /\ outcome = "stats"
    /\ results_count = max_results /\ idx <= Len(cards) /\ idx > 1

(* After a failed enrich call the first card was saved and the second card
   of the listing has been taken up. *)
C7_Witness ==
    /\ pc = "rate_wait_card" /\ enriched = "false" /\ idx = 1 /\ Len(cards) = 2
    /\ business_exists(store, cards[1].google_maps_url)
    /\ stats.detail_failures = 1

====
